---------------------------- MODULE Spec2Model ----------------------------
(***************************************************************************)
(* A model of omen-rgb-gui.py: the OmenRgbGui widget, its settings file,   *)
(* the sysfs colour query, the Qt event queue and the pkexec helper call.  *)
(*                                                                         *)
(* Text that the program parses or formats (colour names, the sysfs        *)
(* content, the values of settings.ini, the helper's output) is a sequence *)
(* of one-character strings, so that parsing and formatting are computed.  *)
(* Text that is only displayed (the status label, a dialog) is a string.   *)
(***************************************************************************)
EXTENDS Integers, Sequences, FiniteSets, TLC

-----------------------------------------------------------------------------
(* Bounds of the model *)

\* apply_settings calls over the whole behaviour (also bounds their nesting)
MaxApplies == 2
\* program restarts over the whole behaviour
MaxRestarts == 1

-----------------------------------------------------------------------------
(* Characters and text *)

HexDigits == <<"0","1","2","3","4","5","6","7","8","9","a","b","c","d","e","f">>
UpperHexDigits == <<"0","1","2","3","4","5","6","7","8","9","A","B","C","D","E","F">>

IsHex(ch) == \E i \in 1..16 : ch = HexDigits[i] \/ ch = UpperHexDigits[i]

HexVal(ch) == (CHOOSE i \in 1..16 : ch = HexDigits[i] \/ ch = UpperHexDigits[i]) - 1

AllHex(s) == \A i \in 1..Len(s) : IsHex(s[i])

Lowercase == <<"a","b","c","d","e","f","g","h","i","j","k","l","m",
               "n","o","p","q","r","s","t","u","v","w","x","y","z">>
Uppercase == <<"A","B","C","D","E","F","G","H","I","J","K","L","M",
               "N","O","P","Q","R","S","T","U","V","W","X","Y","Z">>

UpperChar(ch) ==
    IF \E i \in 1..26 : ch = Lowercase[i]
    THEN Uppercase[CHOOSE i \in 1..26 : ch = Lowercase[i]]
    ELSE ch

LowerChar(ch) ==
    IF \E i \in 1..26 : ch = Uppercase[i]
    THEN Lowercase[CHOOSE i \in 1..26 : ch = Uppercase[i]]
    ELSE ch

\* str.upper()
Upper(s) == [i \in 1..Len(s) |-> UpperChar(s[i])]

\* str.capitalize()
Capitalize(s) == [i \in 1..Len(s) |-> IF i = 1 THEN UpperChar(s[i]) ELSE LowerChar(s[i])]

\* str.isdigit()
IsDigit(s) == s # <<>> /\ \A i \in 1..Len(s) : \E k \in 1..10 : s[i] = HexDigits[k]

IsSpace(ch) == ch \in {" ", "\n", "\t"}

RECURSIVE LStrip(_)
LStrip(s) == IF s # <<>> /\ IsSpace(Head(s)) THEN LStrip(Tail(s)) ELSE s

RECURSIVE RStrip(_)
RStrip(s) ==
    IF s # <<>> /\ IsSpace(s[Len(s)]) THEN RStrip(SubSeq(s, 1, Len(s) - 1)) ELSE s

\* str.strip()
Strip(s) == RStrip(LStrip(s))

\* the displayed string of a text
RECURSIVE Join(_)
Join(s) == IF s = <<>> THEN "" ELSE Head(s) \o Join(Tail(s))

-----------------------------------------------------------------------------
(* QColor *)

InvalidColor == [valid |-> FALSE, r |-> 0, g |-> 0, b |-> 0]

Rgb(r, g, b) == [valid |-> TRUE, r |-> r, g |-> g, b |-> b]

\* the colour names the program uses (Qt's SVG colour table)
NamedColors == {
    [name |-> <<"r","e","d">>,         color |-> Rgb(255, 0, 0)],
    [name |-> <<"l","i","m","e">>,     color |-> Rgb(0, 255, 0)],
    [name |-> <<"b","l","u","e">>,     color |-> Rgb(0, 0, 255)],
    [name |-> <<"w","h","i","t","e">>, color |-> Rgb(255, 255, 255)] }

\* one channel of "#RGB", "#RRGGBB", "#RRRGGGBBB" or "#RRRRGGGGBBBB": the
\* channel's k digits, of which the top 8 bits are kept
Channel(d, k, n) ==
    LET first == d[(n - 1) * k + 1]
    IN  IF k = 1 THEN 17 * HexVal(first)
        ELSE 16 * HexVal(first) + HexVal(d[(n - 1) * k + 2])

\* QColor(str): "#" and 3, 6, 9 or 12 hex digits, "#AARRGGBB", or a colour name
QColorFromString(s) ==
    IF s # <<>> /\ Head(s) = "#"
    THEN LET d == Tail(s)
         IN  IF ~AllHex(d) THEN InvalidColor
             ELSE IF Len(d) = 8
                  THEN LET e == SubSeq(d, 3, 8)
                       IN  Rgb(Channel(e, 2, 1), Channel(e, 2, 2), Channel(e, 2, 3))
             ELSE IF Len(d) \in {3, 6, 9, 12}
                  THEN LET k == Len(d) \div 3
                       IN  Rgb(Channel(d, k, 1), Channel(d, k, 2), Channel(d, k, 3))
             ELSE InvalidColor
    ELSE IF \E nc \in NamedColors : nc.name = s
         THEN (CHOOSE nc \in NamedColors : nc.name = s).color
         ELSE InvalidColor

Hex2(v) == <<HexDigits[(v \div 16) + 1], HexDigits[(v % 16) + 1]>>

\* QColor.name(): "#rrggbb", lower case
Name(c) == <<"#">> \o Hex2(c.r) \o Hex2(c.g) \o Hex2(c.b)


-----------------------------------------------------------------------------
(* The files the program reads *)

\* HELPER_SCRIPT_PATH
HELPER_SCRIPT_PATH == "/usr/local/bin/omen-rgb-helper.sh"

T_white == <<"w","h","i","t","e">>
T_all == <<"a","l","l">>

\* the zone ids of button_definitions
Zones == { <<"0">>, <<"1">>, <<"2">>, <<"3">>, T_all }

\* settings.ini as configparser sees it: the file may be missing; reading it
\* may fail (not an INI file, not text); it may hold a [Settings] section with
\* either key
NoFile == [exists |-> FALSE, parses |-> FALSE, section |-> FALSE,
           has_color |-> FALSE, color |-> <<>>, has_zone |-> FALSE, zone |-> <<>>]

UnreadableFile == [NoFile EXCEPT !.exists = TRUE]

EmptyFile == [NoFile EXCEPT !.exists = TRUE, !.parses = TRUE]

SettingsFile(has_color, color, has_zone, zone) ==
    [exists |-> TRUE, parses |-> TRUE, section |-> TRUE,
     has_color |-> has_color, color |-> IF has_color THEN color ELSE <<>>,
     has_zone |-> has_zone, zone |-> IF has_zone THEN zone ELSE <<>>]

\* configparser's BasicInterpolation of a value on get(): "%%" is "%", and any
\* other "%" raises InterpolationSyntaxError, a configparser.Error (no value
\* of the model holds a "%(name)s" reference)
RECURSIVE Interpolate(_)
Interpolate(v) ==
    IF v = <<>> THEN [ok |-> TRUE, value |-> <<>>]
    ELSE IF Head(v) # "%"
         THEN LET r == Interpolate(Tail(v))
              IN  [ok |-> r.ok, value |-> IF r.ok THEN <<Head(v)>> \o r.value ELSE <<>>]
    ELSE IF Len(v) >= 2 /\ v[2] = "%"
         THEN LET r == Interpolate(SubSeq(v, 3, Len(v)))
              IN  [ok |-> r.ok, value |-> IF r.ok THEN <<"%">> \o r.value ELSE <<>>]
    ELSE [ok |-> FALSE, value |-> <<>>]

\* a search that returns the last match, not the first
FirstHexRun_Last(content) ==
    LET starts == { i \in 1..(Len(content) - 5) : AllHex(SubSeq(content, i, i + 5)) }
    IN  IF starts = {} THEN <<>>
        ELSE LET i == CHOOSE i \in starts : \A j \in starts : i >= j
             IN  SubSeq(content, i, i + 5)

\* re.search(r'([0-9a-fA-F]{6})', content): the leftmost six hex digits in a
\* row, or <<>> when there is no match
FirstHexRun(content) ==
    LET starts == { i \in 1..(Len(content) - 5) : AllHex(SubSeq(content, i, i + 5)) }
    IN  IF starts = {} THEN <<>>
        ELSE LET i == CHOOSE i \in starts : \A j \in starts : i <= j
             IN  SubSeq(content, i, i + 5)

\* query_initial_color_from_sysfs: the new current_color.  sysfs.state is
\* "ok", "missing" (FileNotFoundError) or "denied" (PermissionError)
query_initial_color_from_sysfs(sysfs) ==
    IF sysfs.state # "ok" THEN QColorFromString(T_white)
    ELSE LET content == Strip(sysfs.content)
             hex_color == FirstHexRun(content)
         IN  IF hex_color # <<>>
             THEN LET parsed_qcolor == QColorFromString(<<"#">> \o hex_color)
                  IN  IF parsed_qcolor.valid THEN parsed_qcolor
                      ELSE QColorFromString(T_white)
             ELSE QColorFromString(T_white)

\* the try block of load_settings: the colour and the zone after it, and
\* loaded_color_from_config
ReadConfig(file, color0, zone0) ==
    LET unchanged == [color |-> color0, zone |-> zone0, loaded |-> FALSE]
    IN  IF ~file.exists THEN unchanged
        ELSE IF ~file.parses THEN unchanged
        ELSE IF ~file.section THEN unchanged
        ELSE LET cget == IF file.has_color THEN Interpolate(file.color)
                         ELSE [ok |-> TRUE, value |-> <<>>]
                 temp_color == QColorFromString(cget.value)
                 loaded == cget.value # <<>> /\ temp_color.valid
                 color1 == IF loaded THEN temp_color ELSE color0
                 zget == IF file.has_zone THEN Interpolate(file.zone)
                         ELSE [ok |-> TRUE, value |-> zone0]
             IN  IF ~cget.ok THEN unchanged
                 ELSE [color |-> color1,
                       zone |-> IF zget.ok THEN zget.value ELSE zone0,
                       loaded |-> loaded]

\* load_settings: current_color, target_zone, and whether sysfs was queried
load_settings(file, sysfs, color0, zone0) ==
    LET cfg == ReadConfig(file, color0, zone0)
    IN  [color |-> IF cfg.loaded THEN cfg.color
                   ELSE query_initial_color_from_sysfs(sysfs),
         zone |-> cfg.zone,
         queried |-> ~cfg.loaded]

\* a save_settings that stores the colour without its "#"
save_settings_NoHash(color, zone) == SettingsFile(TRUE, Tail(Name(color)), TRUE, zone)

\* save_settings: the file written by configparser
save_settings(color, zone) == SettingsFile(TRUE, Name(color), TRUE, zone)

\* an update_status_label that leaves the colour name in lower case
update_status_label_NoUpper(color, zone) ==
    LET color_name == IF color.valid THEN Join(Name(color)) ELSE "INVALID"
        zone_display_name ==
            IF IsDigit(zone) THEN "Zone " \o Join(zone)
            ELSE IF zone # T_all THEN Join(Capitalize(zone)) ELSE "All"
    IN  "Target: " \o zone_display_name \o ", Color: " \o color_name

\* update_status_label: the label's text
update_status_label(color, zone) ==
    LET color_name == IF color.valid THEN Join(Upper(Name(color))) ELSE "INVALID"
        zone_display_name ==
            IF IsDigit(zone) THEN "Zone " \o Join(zone)
            ELSE IF zone # T_all THEN Join(Capitalize(zone)) ELSE "All"
    IN  "Target: " \o zone_display_name \o ", Color: " \o color_name

-----------------------------------------------------------------------------
(* The window *)

\* QAbstractButton: a click on a checkable button toggles it, then emits clicked
Clicked(buttons, zid) == [buttons EXCEPT ![zid] = ~buttons[zid]]

\* a select_zone that unchecks the other buttons and leaves the clicked one
\* as the click left it
select_zone_buttons_OthersOnly(buttons, zone_id) ==
    [zid \in DOMAIN buttons |-> IF zid = zone_id THEN buttons[zid] ELSE FALSE]

\* the loop of select_zone over zone_buttons
select_zone_buttons(buttons, zone_id) == [zid \in DOMAIN buttons |-> zid = zone_id]

\* an update_ui_from_loaded_settings without the fallback to "all"
FallbackZone_None(zone) == zone

\* update_ui_from_loaded_settings: the zone whose button is checked
FallbackZone(zone) == IF zone \in Zones THEN zone ELSE T_all

\* a color_hex without .upper()
ColorHex_NoUpper(color) == Tail(Name(color))

\* color_hex of apply_settings: name()[1:].upper()
ColorHex(color) == Upper(Tail(Name(color)))

\* command of apply_settings
HelperCommand(zone_id_str, color_hex) ==
    <<"pkexec", HELPER_SCRIPT_PATH, Join(zone_id_str), Join(color_hex)>>

\* subprocess.run without check=True: a non-zero exit code raises nothing
RunResult_NoCheck(outcome, code) ==
    CASE outcome = "notfound" -> "FileNotFoundError"
      [] outcome = "timeout"  -> "TimeoutExpired"
      [] OTHER -> "completed"

\* subprocess.run(command, check=True, timeout=20): what the call ends with
RunResult(outcome, code) ==
    CASE outcome = "notfound" -> "FileNotFoundError"
      [] outcome = "timeout"  -> "TimeoutExpired"
      [] outcome = "exit" /\ code # 0 -> "CalledProcessError"
      [] OTHER -> "completed"

ApplyingMsg(color_hex, zone_id_str) ==
    "Applying " \o Join(color_hex) \o " to zone '" \o Join(zone_id_str) \o "'..."

SuccessMsg(color_hex, zone_id_str, stderr) ==
    "Successfully applied " \o Join(color_hex) \o " to zone '" \o Join(zone_id_str)
        \o "'. Settings saved."
        \o (IF stderr # <<>> THEN " (Helper warnings in console)" ELSE "")

\* full_error_msg of the CalledProcessError handler
FullErrorMsg(code, stdout, stderr) ==
    LET detail0 == IF stderr # <<>> THEN Strip(stderr) ELSE Strip(stdout)
        error_msg_detail ==
            IF detail0 = <<>> THEN "Unknown error from helper script or pkexec."
            ELSE Join(detail0)
    IN  "Error applying settings (code " \o ToString(code) \o ").\n" \o
        (IF code = 127
         THEN "pkexec: Authorization failed, policy issue, or helper script not found/executable."
         ELSE IF code = 126 THEN "pkexec: Authorization cancelled by user."
         ELSE "Helper/pkexec reported: " \o error_msg_detail)

\* the status label a finished helper call leaves
FinalStatus(result, color_hex, zone_id_str, stderr) ==
    CASE result = "completed" -> SuccessMsg(color_hex, zone_id_str, stderr)
      [] result = "CalledProcessError" ->
            "Error applying settings. Check console for details."
      [] result = "FileNotFoundError" -> "Critical Error: pkexec missing."
      [] result = "TimeoutExpired" -> "Timeout Error. Check console for details."

\* the text of the message box a finished helper call shows ("" for none)
FinalDialog(result, code, stdout, stderr) ==
    CASE result = "completed" -> ""
      [] result = "CalledProcessError" -> FullErrorMsg(code, stdout, stderr)
      [] result = "FileNotFoundError" ->
            "Error: 'pkexec' command not found. Is Polkit (policykit-1) installed and in PATH?"
      [] result = "TimeoutExpired" ->
            "Error: Command timed out. \nThis might happen if pkexec is waiting for a password and none is provided, or if the helper script is stuck."

\* the file after save_settings, whose open() or write may raise OSError
FileAfterSave(file, color, zone, save_result) ==
    CASE save_result = "ok" -> save_settings(color, zone)
      [] save_result = "open_failed" -> file
      [] save_result = "write_failed" -> EmptyFile

-----------------------------------------------------------------------------
(* Inputs *)

\* the colours of the "Quick Colors" buttons
QuickColors == { QColorFromString(n) :
                   n \in { <<"r","e","d">>, <<"l","i","m","e">>, <<"b","l","u","e">>, T_white } }

\* what QColorDialog.getColor returns: a colour picked, or an invalid colour
\* when the dialog is cancelled
DialogColors == { Rgb(18, 171, 205), InvalidColor }

\* the clicks and calls of the event-loop specification: two of the five zone
\* buttons, the "White" quick colour button, set_current_color with an
\* invalid colour
ClickedZones == { <<"2">>, T_all }
SetColors == { QColorFromString(T_white), InvalidColor }

\* what the helper prints
T_bad_zone == <<"b","a","d"," ","z","o","n","e","\n">>
T_usage == <<"u","s","a","g","e","\n">>
T_blank == <<" ","\n">>

\* the helper's stdout and stderr
NoOutput == [stdout |-> <<>>, stderr |-> <<>>]
Warned == [stdout |-> T_usage, stderr |-> T_bad_zone]
Outputs == { NoOutput, Warned,
             [stdout |-> T_usage, stderr |-> <<>>],
             [stdout |-> T_usage, stderr |-> T_blank] }

\* how a helper call ends: code 0 without or with warnings on stderr; code 1
\* from the helper with any output; code 126 or 127 from pkexec
HelperExits ==
    { [code |-> 0, out |-> o] : o \in {NoOutput, Warned} }
    \cup { [code |-> 1, out |-> o] : o \in Outputs }
    \cup { [code |-> c, out |-> NoOutput] : c \in {126, 127} }

ColorValues == { <<"#","f","f","0","0","0","0">>, <<"#","F","F","F">>, <<"r","e","d">>, <<>>, <<"z","z","z">>, <<"5","0","%">>, <<"#","1","2","3","4","5">>, <<"#","8","0","a","a","5","5","f","f">> }

ZoneValues == { <<"0">>, <<"2">>, T_all, <<"7">>, <<"A","L","L">>, <<>>, <<"5","%">> }

\* every settings.ini of the model
AllFiles ==
    {NoFile, UnreadableFile, EmptyFile}
    \cup { SettingsFile(hc, c, hz, z) :
             hc \in BOOLEAN, c \in ColorValues, hz \in BOOLEAN, z \in ZoneValues }

SysfsMissing == [state |-> "missing", content |-> <<>>]
SysfsDenied == [state |-> "denied", content |-> <<>>]
Sysfs(content) == [state |-> "ok", content |-> content]

\* every zone00_rgb of the model
AllSysfs ==
    {SysfsMissing, SysfsDenied}
    \cup { Sysfs(c) : c \in { <<"R","G","B",":","a","a","5","5","f","f"," ","(","R",":","1","7","0"," ","G",":","8","5"," ","B",":","2","5","5",")","\n">>, <<>>, <<"o","f","f">>, <<"1","2","3","4","5"," ","0","x","F","F","0","0","F","F","0","0"," ","a","b","c","d","e","f">>, <<" "," ","c","0","f","f","e","e","1">> } }

-----------------------------------------------------------------------------
(* State *)

VARIABLES
    pc,             \* where the program is: "start" (before load_settings),
                    \* "loaded", "ui" (after init_ui), "ready" (event loop)
    current_color,  \* self.current_color
    target_zone,    \* self.target_zone
    zone_buttons,   \* zone id -> whether its button is checked
    status_label,   \* the text of self.status_label
    dialog,         \* the text of the message box the last step showed
    config_file,    \* CONFIG_FILE
    sysfs_file,     \* SYSFS_ZONE0_RGB_PATH
    sysfs_queried,  \* whether this run of the program read sysfs_file
    stack,          \* the apply_settings calls that are inside processEvents()
    helper_calls,   \* how many times subprocess.run was called
    last_command,   \* the argument list of the subprocess.run call of the
                    \* last step (<<>>: it made none)
    applies,        \* how many times apply_settings was called
    restarts,       \* how many times the program was started again
    saved,          \* the colour and zone save_settings last wrote, if the
                    \* file still is as that call left it
    last_run        \* how the helper call of the last step ended: the result of
                    \* subprocess.run, the exit code, the output, and how
                    \* save_settings ended

vars == <<pc, current_color, target_zone, zone_buttons, status_label, dialog,
          config_file, sysfs_file, sysfs_queried, stack, helper_calls,
          last_command, applies, restarts, saved, last_run>>

NoRun == [result |-> "none", code |-> 0, stdout |-> <<>>, stderr |-> <<>>,
          save_result |-> "none"]

\* a step that calls no helper and shows no message box
Quiet == dialog' = "" /\ last_command' = <<>> /\ last_run' = NoRun

NotSaved == [ok |-> FALSE, color |-> InvalidColor, zone |-> <<>>]

\* the fields of OmenRgbGui as __init__ sets them before load_settings
Fresh ==
    /\ pc = "start"
    /\ current_color = QColorFromString(T_white)
    /\ target_zone = T_all
    /\ zone_buttons = [z \in Zones |-> FALSE]
    /\ status_label = ""
    /\ dialog = ""
    /\ sysfs_queried = FALSE
    /\ stack = <<>>

\* the settings files and sysfs files the event-loop specification starts from
InitFiles == { NoFile, SettingsFile(TRUE, <<"#","F","F","F">>, TRUE, <<"7">>) }
InitSysfs == { SysfsMissing }

Init ==
    /\ Fresh
    /\ config_file \in InitFiles
    /\ sysfs_file \in InitSysfs
    /\ helper_calls = 0 /\ applies = 0 /\ restarts = 0
    /\ last_command = <<>>
    /\ saved = NotSaved
    /\ last_run = NoRun

InitStartup ==
    /\ Fresh
    /\ config_file \in AllFiles
    /\ sysfs_file \in AllSysfs
    /\ helper_calls = 0 /\ applies = 0 /\ restarts = 0
    /\ last_command = <<>>
    /\ saved = NotSaved
    /\ last_run = NoRun

-----------------------------------------------------------------------------
(* The constructor *)

LoadSettings ==
    /\ pc = "start"
    /\ LET r == load_settings(config_file, sysfs_file, current_color, target_zone)
       IN  /\ current_color' = r.color
           /\ target_zone' = r.zone
           /\ sysfs_queried' = r.queried
    /\ pc' = "loaded"
    /\ Quiet
    /\ UNCHANGED <<zone_buttons, status_label, config_file, sysfs_file, stack,
                   helper_calls, applies, restarts, saved>>

InitUi ==
    /\ pc = "loaded"
    /\ zone_buttons' = [z \in Zones |-> FALSE]
    /\ status_label' = "Ready. Select zone and color."
    /\ pc' = "ui"
    /\ Quiet
    /\ UNCHANGED <<current_color, target_zone, config_file, sysfs_file,
                   sysfs_queried, stack, helper_calls, applies, restarts, saved>>

UpdateUiFromLoadedSettings ==
    /\ pc = "ui"
    /\ target_zone' = FallbackZone(target_zone)
    /\ zone_buttons' = [zone_buttons EXCEPT ![FallbackZone(target_zone)] = TRUE]
    /\ status_label' = update_status_label(current_color, FallbackZone(target_zone))
    /\ pc' = "ready"
    /\ Quiet
    /\ UNCHANGED <<current_color, config_file, sysfs_file, sysfs_queried, stack,
                   helper_calls, applies, restarts, saved>>

\* the program is closed while idle and started again: __main__
Restart ==
    /\ pc = "ready"
    /\ stack = <<>>
    /\ restarts < MaxRestarts
    /\ restarts' = restarts + 1
    /\ pc' = "start"
    /\ current_color' = QColorFromString(T_white)
    /\ target_zone' = T_all
    /\ zone_buttons' = [z \in Zones |-> FALSE]
    /\ status_label' = ""
    /\ sysfs_queried' = FALSE
    /\ Quiet
    /\ UNCHANGED <<config_file, sysfs_file, stack, helper_calls, applies, saved>>

-----------------------------------------------------------------------------
(* The handlers.  Qt dispatches a click to its handler from the main event   *)
(* loop, and also from the QApplication.processEvents() call of an           *)
(* apply_settings that is running (stack # <<>>): a handler below runs in    *)
(* either place.                                                             *)

\* a click on the button of zone_id: the button toggles, then select_zone
SelectZone(zone_id) ==
    /\ pc = "ready"
    /\ UNCHANGED <<pc, current_color, config_file, sysfs_file, sysfs_queried,
                   stack, helper_calls, applies, restarts, saved>>
    /\ Quiet
    /\ target_zone' = zone_id
    /\ zone_buttons' = select_zone_buttons(Clicked(zone_buttons, zone_id), zone_id)
    /\ status_label' = update_status_label(current_color, zone_id)

\* set_current_color(color), from a quick colour button or called directly
SetCurrentColor(color) ==
    /\ pc = "ready"
    /\ UNCHANGED <<pc, target_zone, zone_buttons, config_file, sysfs_file,
                   sysfs_queried, stack, helper_calls, applies, restarts, saved>>
    /\ Quiet
    /\ IF color.valid
       THEN /\ current_color' = color
            /\ status_label' = update_status_label(color, target_zone)
       ELSE UNCHANGED <<current_color, status_label>>

\* show_color_dialog: the modal colour dialog returns color, and
\* set_current_color is called if it is valid
ShowColorDialog(color) ==
    /\ pc = "ready"
    /\ IF color.valid
       THEN SetCurrentColor(color)
       ELSE Quiet /\ UNCHANGED <<pc, current_color, target_zone, zone_buttons,
                                  status_label, config_file, sysfs_file,
                                  sysfs_queried, stack, helper_calls, applies,
                                  restarts, saved>>

\* apply_settings up to QApplication.processEvents()
ApplyStart ==
    /\ pc = "ready"
    /\ applies < MaxApplies
    /\ applies' = applies + 1
    /\ IF ~current_color.valid
       THEN /\ dialog' = "Cannot apply an invalid color. Please choose a valid color first."
            /\ status_label' = "Error: Invalid color selected."
            /\ last_command' = <<>> /\ last_run' = NoRun
            /\ UNCHANGED stack
       ELSE /\ stack' = <<[color_hex |-> ColorHex(current_color),
                           zone_id_str |-> target_zone,
                           start_color |-> current_color,
                           start_zone |-> target_zone,
                           start_file |-> config_file]>> \o stack
            /\ status_label' = ApplyingMsg(ColorHex(current_color), target_zone)
            /\ Quiet
    /\ UNCHANGED <<pc, current_color, target_zone, zone_buttons, config_file,
                   sysfs_file, sysfs_queried, helper_calls, restarts, saved>>

\* apply_settings from the return of processEvents() to its end: the helper
\* is run and its result handled; save_result is how the write of
\* save_settings ends if it is called
ApplyFinish(outcome, code, stdout, stderr, save_result) ==
    /\ pc = "ready"
    /\ stack # <<>>
    /\ LET f == Head(stack)
           result == RunResult(outcome, code)
           saves == result = "completed"
       IN  /\ helper_calls' = helper_calls + 1
           /\ last_command' = HelperCommand(f.zone_id_str, f.color_hex)
           /\ config_file' =
                IF saves
                THEN FileAfterSave(config_file, current_color, target_zone, save_result)
                ELSE config_file
           /\ saved' =
                IF ~saves \/ save_result = "open_failed" THEN saved
                ELSE IF save_result = "ok"
                     THEN [ok |-> TRUE, color |-> current_color, zone |-> target_zone]
                ELSE NotSaved
           /\ last_run' = [result |-> result, code |-> code, stdout |-> stdout,
                           stderr |-> stderr,
                           save_result |-> IF saves THEN save_result ELSE "none"]
           /\ status_label' = FinalStatus(result, f.color_hex, f.zone_id_str, stderr)
           /\ dialog' = IF result = "completed" THEN ""
                        ELSE FinalDialog(result, code, stdout, stderr)
    /\ stack' = Tail(stack)
    /\ UNCHANGED <<pc, current_color, target_zone, zone_buttons, sysfs_file,
                   sysfs_queried, applies, restarts>>

\* the helper exits with code 0, and save_settings runs
HelperSucceeds ==
    \E e \in HelperExits, save_result \in {"ok", "open_failed", "write_failed"} :
        /\ e.code = 0
        /\ ApplyFinish("exit", 0, e.out.stdout, e.out.stderr, save_result)

\* the helper or pkexec exits with another code
HelperExitsNonZero ==
    \E e \in HelperExits :
        /\ e.code # 0
        /\ ApplyFinish("exit", e.code, e.out.stdout, e.out.stderr, "ok")

\* pkexec is not installed, or the call takes more than 20 seconds
HelperFails ==
    \E outcome \in {"notfound", "timeout"} : ApplyFinish(outcome, 0, <<>>, <<>>, "ok")

-----------------------------------------------------------------------------
(* Specifications *)

Constructor == LoadSettings \/ InitUi \/ UpdateUiFromLoadedSettings

Next ==
    \/ Constructor
    \/ Restart
    \/ \E zone_id \in ClickedZones : SelectZone(zone_id)
    \/ \E color \in SetColors : SetCurrentColor(color)
    \/ \E color \in DialogColors : ShowColorDialog(color)
    \/ ApplyStart
    \/ HelperSucceeds
    \/ HelperExitsNonZero
    \/ HelperFails

\* the program from its start, with clicks, applies and restarts
Spec == Init /\ [][Next]_vars

NextStartup == Constructor

\* the constructor alone, over every settings file and sysfs file
SpecStartup == InitStartup /\ [][NextStartup]_vars

-----------------------------------------------------------------------------
(* Properties *)

\* a colour as six upper-case hex digits
HexText(c) ==
    UpperHexDigits[(c.r \div 16) + 1] \o UpperHexDigits[(c.r % 16) + 1] \o
    UpperHexDigits[(c.g \div 16) + 1] \o UpperHexDigits[(c.g % 16) + 1] \o
    UpperHexDigits[(c.b \div 16) + 1] \o UpperHexDigits[(c.b % 16) + 1]

\* a step in which a call of apply_settings returns having run the helper
RunEnds == Len(stack') < Len(stack)

\* C1: every run of apply_settings that starts with a valid colour calls the
\* helper exactly once (a run that ends has made one call, and every run
\* started has either ended or is still inside processEvents), with the
\* arguments pkexec, the helper's path, the zone and the colour (six upper-case
\* hex digits) that were current when the run started; no other step calls it.
C1_HelperCalledOncePerRun ==
    /\ [](helper_calls + Len(stack) = applies)
    /\ [][ /\ RunEnds => helper_calls' = helper_calls + 1
           /\ helper_calls' # helper_calls =>
                /\ RunEnds
                /\ Head(stack).start_zone \in Zones
                /\ last_command' =
                     <<"pkexec", "/usr/local/bin/omen-rgb-helper.sh",
                       Join(Head(stack).start_zone), HexText(Head(stack).start_color)>>
         ]_vars

\* C1 witness: a run started on zone 2 with colour #12abcd has called the helper
C1_Witness ==
    /\ helper_calls = 1
    /\ stack = <<>>
    /\ last_command = <<"pkexec", "/usr/local/bin/omen-rgb-helper.sh", "2", "12ABCD">>

\* C2: the settings file is written only by a run whose helper exited with
\* code 0; after a run with any other outcome the file is as it was when
\* that run started; no other step (select_zone, set_current_color) changes it.
C2_FileWrittenOnlyOnSuccess ==
    [][ /\ (RunEnds /\ last_run'.result # "completed") =>
              config_file' = Head(stack).start_file
        /\ config_file' # config_file =>
              RunEnds /\ last_run'.result = "completed" /\ last_run'.code = 0
      ]_vars

\* C3: when save_settings has written colour c and zone z, the next start of
\* the program ends its constructor with current_color = c and
\* target_zone = z, and has not read the sysfs file.
C3_SaveLoadRoundTrip ==
    [][ (UpdateUiFromLoadedSettings /\ saved.ok) =>
            /\ current_color' = saved.color
            /\ target_zone' = saved.zone
            /\ ~sysfs_queried'
      ]_vars

\* C3 witness: the program was started again after saving #12abcd and zone 2,
\* and has loaded them
C3_Witness ==
    /\ restarts = 1
    /\ pc = "ui"
    /\ saved = [ok |-> TRUE, color |-> Rgb(18, 171, 205), zone |-> <<"2">>]
    /\ current_color = Rgb(18, 171, 205)
    /\ target_zone = <<"2">>
    /\ ~sysfs_queried

\* the colour each last_color_hex value of the model stands for (an invalid
\* colour: the value gives no colour)
ExpectedConfigColor(v) ==
    CASE v = <<"#","f","f","0","0","0","0">> -> Rgb(255, 0, 0)
      [] v = <<"#","F","F","F">> -> Rgb(255, 255, 255)
      [] v = <<"r","e","d">> -> Rgb(255, 0, 0)
      [] v = <<"#","8","0","a","a","5","5","f","f">> -> Rgb(170, 85, 255)
      [] OTHER -> InvalidColor

\* the colour of the first run of six hex digits in each sysfs content of the
\* model (white: there is none)
ExpectedSysfsColor(content) ==
    CASE content = <<"R","G","B",":","a","a","5","5","f","f"," ","(","R",":","1","7","0"," ","G",":","8","5"," ","B",":","2","5","5",")","\n">> -> Rgb(170, 85, 255)
      [] content = <<"1","2","3","4","5"," ","0","x","F","F","0","0","F","F","0","0"," ","a","b","c","d","e","f">> -> Rgb(255, 0, 255)
      [] content = <<" "," ","c","0","f","f","e","e","1">> -> Rgb(192, 255, 238)
      [] OTHER -> Rgb(255, 255, 255)

\* the valid colour the settings file gives, or an invalid colour
ConfigColor(file) ==
    IF file.exists /\ file.parses /\ file.section /\ file.has_color
    THEN ExpectedConfigColor(file.color)
    ELSE InvalidColor

\* C4: once load_settings has run, sysfs was read if and only if the settings
\* file gave no valid colour; then current_color is the colour of the first
\* six hex digits in a row of the sysfs content, or white when the sysfs file is
\* missing, unreadable or has no such run; otherwise current_color is the
\* colour of the settings file.
C4_InitialColourPrecedence ==
    pc # "start" =>
        /\ sysfs_queried = ~ConfigColor(config_file).valid
        /\ current_color =
             IF ConfigColor(config_file).valid THEN ConfigColor(config_file)
             ELSE IF sysfs_file.state = "ok" THEN ExpectedSysfsColor(sysfs_file.content)
             ELSE Rgb(255, 255, 255)

\* C4 witness: no colour in the settings file, and the sysfs content holds a
\* five-digit run before its first six-digit run
C4_Witness ==
    /\ pc = "ready"
    /\ ~config_file.exists
    /\ sysfs_file = Sysfs(<<"1","2","3","4","5"," ","0","x","F","F","0","0","F","F","0","0"," ","a","b","c","d","e","f">>)
    /\ sysfs_queried
    /\ current_color = Rgb(255, 0, 255)

\* the status label of a successful helper call
SuccessText == "Successfully applied " \o last_command[4] \o " to zone '"
                   \o last_command[3] \o "'. Settings saved."

CodePrefix(code) == "Error applying settings (code " \o ToString(code) \o ").\n"

\* what the status label and the dialog are after each outcome of the helper
\* call, but for the dialog of an exit code other than 0, 126 and 127
OutcomesReported ==
    /\ last_run.result = "completed" =>
          /\ last_run.code = 0
          /\ status_label \in { SuccessText, SuccessText \o " (Helper warnings in console)" }
    /\ last_run.result = "CalledProcessError" =>
          /\ last_run.code # 0
          /\ status_label = "Error applying settings. Check console for details."
          /\ last_run.code = 126 =>
                dialog = CodePrefix(126) \o "pkexec: Authorization cancelled by user."
          /\ last_run.code = 127 =>
                dialog = CodePrefix(127) \o
                    "pkexec: Authorization failed, policy issue, or helper script not found/executable."
    /\ last_run.result = "FileNotFoundError" =>
          status_label = "Critical Error: pkexec missing."
    /\ last_run.result = "TimeoutExpired" =>
          status_label = "Timeout Error. Check console for details."

\* the helper or pkexec exited with a code other than 0, 126 and 127
OtherCode == last_run.result = "CalledProcessError" /\ last_run.code \notin {126, 127}

\* a helper call ends the run of apply_settings that made it
RunReturns == [][last_run'.result # "none" => stack' = Tail(stack)]_vars

HoldsZone(file) == file.exists /\ file.parses /\ file.section /\ file.has_zone

\* C6 as stated: after the constructor target_zone is one of the five zones:
\* the last_target_zone of the settings file if that is one of the five, and
\* "all" if it is another value or the file holds none, whatever the colour.
C6_Original ==
    pc = "ready" =>
        /\ target_zone \in Zones
        /\ target_zone = IF HoldsZone(config_file) /\ config_file.zone \in Zones
                         THEN config_file.zone
                         ELSE <<"a","l","l">>

\* reading last_color_hex raises an error: its value holds a "%" that is
\* followed neither by "%" nor by "("
ColorReadFails(file) ==
    /\ file.exists /\ file.parses /\ file.section /\ file.has_color
    /\ \E i \in 1..Len(file.color) :
          /\ file.color[i] = "%"
          /\ (i = 1 \/ file.color[i - 1] # "%")
          /\ (i = Len(file.color) \/ file.color[i + 1] \notin {"%", "("})

\* C6 amended: as C6, provided reading last_color_hex raises no error; when
\* it does, target_zone is "all".
C6_ZoneFallback ==
    pc = "ready" =>
        /\ target_zone \in Zones
        /\ target_zone = IF /\ HoldsZone(config_file)
                            /\ config_file.zone \in Zones
                            /\ ~ColorReadFails(config_file)
                         THEN config_file.zone
                         ELSE <<"a","l","l">>

\* C6 witness: the zone is loaded although the colour of the file is invalid
C6_Witness ==
    /\ pc = "ready"
    /\ config_file = SettingsFile(TRUE, <<"z","z","z">>, TRUE, <<"2">>)
    /\ target_zone = <<"2">>

\* the status label for a zone and a colour
TargetText(zone, color) ==
    "Target: " \o (IF zone = <<"a","l","l">> THEN "All" ELSE "Zone " \o Join(zone))
        \o ", Color: #" \o HexText(color)

\* C7: select_zone and set_current_color with a valid colour leave the label
\* "Target: <zone>, Color: <COLOR>" of the new zone and colour, and change
\* nothing else of the two; set_current_color with an invalid colour changes
\* neither the colour, the zone nor the label.
C7_StatusLabelAfterSelection ==
    [][ /\ \A zone_id \in Zones :
              SelectZone(zone_id) =>
                  /\ status_label' = TargetText(zone_id, current_color)
                  /\ current_color' = current_color
        /\ \A color \in QuickColors \cup DialogColors :
              SetCurrentColor(color) =>
                  IF color.valid
                  THEN /\ status_label' = TargetText(target_zone, color)
                       /\ target_zone' = target_zone
                  ELSE UNCHANGED <<current_color, target_zone, status_label>>
      ]_vars

\* C7 witness: zone 2 and the colour #12abcd were selected
C7_Witness ==
    /\ pc = "ready"
    /\ applies = 0
    /\ target_zone = <<"2">>
    /\ current_color = Rgb(18, 171, 205)
    /\ status_label = "Target: Zone 2, Color: #12ABCD"

\* C8: after a run whose helper exited with code 0 and whose save_settings
\* succeeded, the settings file holds the colour and the zone that were passed
\* to the helper, and the status label names them.
C8_FileHoldsWhatWasApplied ==
    (last_run.result = "completed" /\ last_run.save_result = "ok") =>
        /\ HexText(QColorFromString(config_file.color)) = last_command[4]
        /\ Join(config_file.zone) = last_command[3]
        /\ status_label \in
             { "Successfully applied " \o HexText(QColorFromString(config_file.color))
                   \o " to zone '" \o Join(config_file.zone) \o "'. Settings saved." \o w :
               w \in {"", " (Helper warnings in console)"} }

\* C9: whenever the window is up, the checked zone buttons are exactly the
\* button of target_zone, one of the five.
C9_OneButtonChecked ==
    pc = "ready" =>
        /\ target_zone \in Zones
        /\ \A zone_id \in Zones : zone_buttons[zone_id] = (zone_id = target_zone)

\* C9 witness: zone 2 is selected after an apply
C9_Witness ==
    /\ pc = "ready"
    /\ helper_calls = 1
    /\ target_zone = <<"2">>
    /\ zone_buttons[<<"2">>]

=============================================================================
